---- MODULE Spec2Model ----
(***************************************************************************)
(* Model of gitbase's UAST functions (internal/function/uast.go):          *)
(* uast / uast_mode (uastFunc.Eval, getUAST, the process-wide tree cache), *)
(* uast_xpath, uast_extract, uast_children and uast_imports.               *)
(***************************************************************************)
EXTENDS Integers, Sequences, FiniteSets, TLC

(***************************************************************************)
(* Bounds of the model.                                                    *)
(***************************************************************************)
\* longest blob content, in bytes
MaxBlobLen == 2
\* largest configured capacity of the tree cache (GITBASE_UAST_CACHE_SIZE)
MaxCacheSize == 1
\* longest sequence of nodes handed to uast_xpath
MaxXPathNodes == 1
\* longest sequence of nodes handed to uast_extract / uast_children / uast_imports
MaxNodes == 2

(***************************************************************************)
(* nodes.Node: an object (string keys -> nodes), an array, a scalar value  *)
(* or nil.  Every node has the same record shape; an object keeps its      *)
(* fields in the order Object.Keys() yields them (sorted by key), an array *)
(* keeps its elements under the key "".                                    *)
(***************************************************************************)
NilNode == [kind |-> "nil", str |-> "", num |-> 0, kids |-> <<>>]
StringV(s) == [kind |-> "string", str |-> s, num |-> 0, kids |-> <<>>]
IntV(n) == [kind |-> "int", str |-> "", num |-> n, kids |-> <<>>]
Field(k, n) == [key |-> k, node |-> n]
Object(fields) == [kind |-> "object", str |-> "", num |-> 0, kids |-> fields]
Array(elems) ==
  [kind |-> "array", str |-> "", num |-> 0,
   kids |-> [i \in 1..Len(elems) |-> Field("", elems[i])]]

\* nodes.KindsValues: the kinds of scalar values
KindsValues == {"string", "int"}

\* uast.KeyType, uast.KeyToken, uast.KeyRoles, uast.KeyPos
KeyType == "@type"
KeyToken == "@token"
KeyRoles == "@role"
KeyPos == "@pos"

\* Object.Keys(): the keys of an object node, sorted
Keys(node) == [i \in 1..Len(node.kids) |-> node.kids[i].key]

\* Array elements as a sequence of nodes
Elems(node) == [i \in 1..Len(node.kids) |-> node.kids[i].node]

\* node[key] of a Go map: (value, ok)
HasKey(node, key) == \E i \in 1..Len(node.kids) : node.kids[i].key = key
Lookup(node, key) ==
  IF HasKey(node, key)
    THEN (CHOOSE f \in {node.kids[i] : i \in 1..Len(node.kids)} : f.key = key).node
    ELSE NilNode

\* n.(nodes.Object): the type assertion of flattenChildren / extractProperties
IsObject(n) == n.kind = "object"

isCommonProp(key) ==
  key = KeyType \/ key = KeyToken \/ key = KeyRoles \/ key = KeyPos

(***************************************************************************)
(* The nodes of the model.                                                 *)
(***************************************************************************)
PosNode == Object(<<Field("start", IntV(1))>>)
NodeA == Object(<<Field(KeyType, StringV("Identifier")), Field("Name", StringV("x"))>>)
NodeB == Object(<<Field(KeyToken, StringV("1")), Field(KeyType, StringV("Literal"))>>)
NodeFile ==
  Object(<<Field(KeyType, StringV("File")),
           Field("body", Array(<<NodeA, StringV("s"), NodeB>>)),
           Field("doc", StringV("x"))>>)
NodeCall ==
  Object(<<Field(KeyPos, PosNode),
           Field(KeyRoles, Array(<<IntV(1), IntV(2)>>)),
           Field(KeyType, StringV("Call")),
           Field("args", Array(<<NodeB>>)),
           Field("fn", NodeA)>>)
NodeNilChild == Object(<<Field(KeyType, StringV("Return")), Field("value", NilNode)>>)
NodeNilElem == Object(<<Field("items", Array(<<NodeA, NilNode>>))>>)
NodeLit ==
  Object(<<Field("items", Array(<<IntV(12), NodeA, StringV("a")>>)),
           Field("value", IntV(7))>>)

\* the trees the external parser can answer with
Trees == {NodeFile, NodeCall}

\* the nodes a serialized sequence handed to a query function can hold
NodeImport ==
  Object(<<Field(KeyType, StringV("uast:Import")), Field("Path", StringV("fmt"))>>)
QueryNodes ==
  {NodeA, NodeFile, NodeCall, NodeImport, NodeNilChild, NodeNilElem, NodeLit,
   StringV("s"), NilNode}

SeqsUpTo(S, n) == UNION {[1..k -> S] : k \in 0..n}

(***************************************************************************)
(* Values handed back by Eval: SQL NULL, a serialized sequence of nodes,   *)
(* a sequence of strings, or a sequence of sequences of strings.           *)
(***************************************************************************)
Null == [kind |-> "null", nodes |-> <<>>, strs |-> <<>>, lists |-> <<>>]
Blob(arr) == [kind |-> "blob", nodes |-> arr, strs |-> <<>>, lists |-> <<>>]
Strings(ss) == [kind |-> "strings", nodes |-> <<>>, strs |-> ss, lists |-> <<>>]
Lists(ls) == [kind |-> "lists", nodes |-> <<>>, strs |-> <<>>, lists |-> ls]
\* bytes that are no serialized sequence of nodes
Garbage == [kind |-> "garbage", nodes |-> <<>>, strs |-> <<>>, lists |-> <<>>]

\* marshalNodes: no bytes at all for an empty sequence
marshalNodes(arr) == IF Len(arr) = 0 THEN Null ELSE Blob(arr)

\* getNodes: (nodes, isNil, err) of a value handed to a query function
getNodes(data) ==
  IF data.kind = "null" THEN [nodes |-> <<>>, isNil |-> TRUE, err |-> ""]
  ELSE IF data.kind = "blob" THEN [nodes |-> data.nodes, isNil |-> FALSE, err |-> ""]
  ELSE [nodes |-> <<>>, isNil |-> TRUE, err |-> "unmarshal"]

(***************************************************************************)
(* Results of the helpers that can panic: a method called on a nil         *)
(* nodes.Node interface value is a nil dereference.                        *)
(***************************************************************************)
Ok(vs) == [panic |-> FALSE, vals |-> vs]
Panic == [panic |-> TRUE, vals |-> <<>>]
Then(a, b) ==
  IF a.panic \/ b.panic THEN Panic ELSE Ok(a.vals \o b.vals)

(***************************************************************************)
(* uast_children: flattenChildren and getChildren.                         *)
(***************************************************************************)
RECURSIVE objectElems(_, _)
\* the loop of getChildren over an array-valued child: n.Kind() on each element
objectElems(elems, i) ==
  IF i > Len(elems) THEN Ok(<<>>)
  ELSE IF elems[i].kind = "nil" THEN Panic
  ELSE Then(IF elems[i].kind = "object" THEN Ok(<<elems[i]>>) ELSE Ok(<<>>),
            objectElems(elems, i + 1))

\* one iteration of getChildren's loop over node.Keys()
childrenOfKey(node, key) ==
  IF isCommonProp(key) THEN Ok(<<>>)
  ELSE IF ~HasKey(node, key) THEN Ok(<<>>)
  ELSE LET c == Lookup(node, key) IN
       IF c.kind = "nil" THEN Panic
       ELSE IF c.kind = "object" THEN Ok(<<c>>)
       ELSE IF c.kind = "array" THEN objectElems(Elems(c), 1)
       ELSE Ok(<<>>)

RECURSIVE getChildrenFrom(_, _)
getChildrenFrom(node, i) ==
  IF i > Len(node.kids) THEN Ok(<<>>)
  ELSE LET here == childrenOfKey(node, Keys(node)[i]) IN
       IF here.panic THEN Panic ELSE Then(here, getChildrenFrom(node, i + 1))

getChildren(node) == getChildrenFrom(node, 1)

RECURSIVE flattenChildrenFrom(_, _)
flattenChildrenFrom(arr, i) ==
  IF i > Len(arr) THEN Ok(<<>>)
  ELSE LET c == IF IsObject(arr[i]) THEN getChildren(arr[i]) ELSE Ok(<<>>) IN
       IF c.panic THEN Panic ELSE Then(c, flattenChildrenFrom(arr, i + 1))

flattenChildren(arr) == flattenChildrenFrom(arr, 1)

(***************************************************************************)
(* uast_extract: extractProperties and the helpers beneath it.             *)
(***************************************************************************)
Digits == <<"0", "1", "2", "3", "4", "5", "6", "7", "8", "9">>

RECURSIVE IntToString(_)
\* the decimal form sql.Text.Convert gives a non-negative integer
IntToString(n) ==
  IF n < 10 THEN Digits[n + 1] ELSE IntToString(n \div 10) \o Digits[(n % 10) + 1]

\* valueToString: sql.Text.Convert(n.Native()) of a scalar node
valueToString(v) == IF v.kind = "int" THEN IntToString(v.num) ELSE v.str

RECURSIVE valuesFromNodeArray(_, _)
\* the loop of valuesFromNodeArray: n.Kind() on each element
valuesFromNodeArray(elems, i) ==
  IF i > Len(elems) THEN Ok(<<>>)
  ELSE IF elems[i].kind = "nil" THEN Panic
  ELSE Then(IF elems[i].kind \in KindsValues
              THEN Ok(<<valueToString(elems[i])>>) ELSE Ok(<<>>),
            valuesFromNodeArray(elems, i + 1))

\* v, ok := node[key] without the "!ok || v == nil" return: v.Kind() on nil
extractAnyPropNoNilCheck(node, key) ==
  LET v == Lookup(node, key) IN
  IF v.kind = "nil" THEN Panic
  ELSE IF v.kind \in KindsValues THEN Ok(<<valueToString(v)>>)
  ELSE IF v.kind = "array" THEN valuesFromNodeArray(Elems(v), 1)
  ELSE Ok(<<>>)

extractAnyProp(node, key) ==
  IF ~HasKey(node, key) \/ Lookup(node, key).kind = "nil" THEN Ok(<<>>)
  ELSE LET v == Lookup(node, key) IN
       IF v.kind \in KindsValues THEN Ok(<<valueToString(v)>>)
       ELSE IF v.kind = "array" THEN valuesFromNodeArray(Elems(v), 1)
       ELSE Ok(<<>>)

\* role.Role.String() of the role ids the model uses
RoleNames == <<"Identifier", "Qualified", "Binary">>

\* uast.TypeOf: the string under @type, "" otherwise
TypeOf(node) ==
  IF Lookup(node, KeyType).kind = "string" THEN Lookup(node, KeyType).str ELSE ""

\* uast.TokenOf: the printed scalar under @token, "" otherwise
TokenOf(node) ==
  IF Lookup(node, KeyToken).kind \in KindsValues
    THEN valueToString(Lookup(node, KeyToken)) ELSE ""

\* uast.RolesOf: the integer elements of the array under @role
RolesOf(node) ==
  IF Lookup(node, KeyRoles).kind = "array"
    THEN SelectSeq(Elems(Lookup(node, KeyRoles)),
                   LAMBDA e : e.kind = "int" /\ e.num \in 1..Len(RoleNames))
    ELSE <<>>

\* posToString(uast.PositionsOf(node)): the JSON text of a non-empty @pos object
posToString(node) ==
  LET p == Lookup(node, KeyPos) IN
  IF p.kind = "object" /\ Len(p.kids) > 0
    THEN "{" \o p.kids[1].key \o ":" \o valueToString(p.kids[1].node) \o "}"
    ELSE ""

extractCommonProp(node, key) ==
  IF key = KeyType THEN (IF TypeOf(node) # "" THEN <<TypeOf(node)>> ELSE <<>>)
  ELSE IF key = KeyToken THEN (IF TokenOf(node) # "" THEN <<TokenOf(node)>> ELSE <<>>)
  ELSE IF key = KeyRoles
    THEN [i \in 1..Len(RolesOf(node)) |-> RoleNames[RolesOf(node)[i].num]]
  ELSE IF key = KeyPos THEN (IF posToString(node) # "" THEN <<posToString(node)>> ELSE <<>>)
  ELSE <<>>

extractProperties(n, key) ==
  IF ~IsObject(n) THEN Ok(<<>>)
  ELSE IF isCommonProp(key) THEN Ok(extractCommonProp(n, key))
  ELSE extractAnyProp(n, key)

RECURSIVE extractAll(_, _, _)
\* the loop of UASTExtract.Eval over the input nodes
extractAll(ns, key, i) ==
  IF i > Len(ns) THEN Ok(<<>>)
  ELSE LET props == extractProperties(ns[i], key) IN
       IF props.panic THEN Panic ELSE Then(props, extractAll(ns, key, i + 1))

(***************************************************************************)
(* uast_imports: uast.AllImportPaths of one node.                          *)
(***************************************************************************)
RECURSIVE AllImportPaths(_)
AllImportPaths(node) ==
  IF node.kind = "object" /\ TypeOf(node) = "uast:Import"
    THEN (IF Lookup(node, "Path").kind = "string"
            THEN <<Lookup(node, "Path").str>> ELSE <<>>)
  ELSE IF Len(node.kids) = 0 THEN <<>>
  ELSE LET RECURSIVE from(_)
           from(i) == IF i > Len(node.kids) THEN <<>>
                      ELSE AllImportPaths(node.kids[i].node) \o from(i + 1)
       IN from(1)

(***************************************************************************)
(* The SQL expressions Eval evaluates: each one fails, is NULL, or has a   *)
(* value.  An expression Eval returns before reaching stays unread.        *)
(***************************************************************************)
ErrArg == [st |-> "err", s |-> "", b |-> <<>>, v |-> Null]
NullArg == [st |-> "null", s |-> "", b |-> <<>>, v |-> Null]
Unread == [st |-> "unread", s |-> "", b |-> <<>>, v |-> Null]
StrArg(x) == [st |-> "val", s |-> x, b |-> <<>>, v |-> Null]
BytesArg(x) == [st |-> "val", s |-> "", b |-> x, v |-> Null]
NodesArg(x) == [st |-> "val", s |-> "", b |-> <<>>, v |-> x]

\* exprToString: "" for a nil expression and for NULL
exprToString(a) == IF a.st = "val" THEN a.s ELSE ""

\* bblfsh.ParseMode
ValidModes == {"semantic", "annotated", "native"}
ParseModeOK(m) == m \in ValidModes

\* strings.ToLower on the language tags of the model
ToLower(x) == IF x = "GO" THEN "go" ELSE x

ModeArgs == {StrArg("semantic"), StrArg("bogus"), ErrArg}
BlobArgs == {ErrArg, NullArg} \cup {BytesArg(b) : b \in SeqsUpTo({1}, MaxBlobLen)}
LangArgs == {StrArg("GO"), ErrArg}
XPathArgs == {StrArg("//*"), StrArg("//["), NullArg, ErrArg}
KeyArgs ==
  {StrArg(KeyType), StrArg(KeyToken), StrArg(KeyRoles), StrArg(KeyPos),
   StrArg("Name"), StrArg("body"), StrArg("items"), StrArg("missing"),
   StrArg("fn"), StrArg("value"),
   NullArg, ErrArg}
XPathInputs ==
  {ErrArg, NullArg, NodesArg(Garbage)}
    \cup {NodesArg(Blob(ns)) : ns \in SeqsUpTo(Trees, MaxXPathNodes) \ {<<>>}}
QueryInputs ==
  {ErrArg, NullArg, NodesArg(Garbage)}
    \cup {NodesArg(Blob(ns)) : ns \in SeqsUpTo(QueryNodes, MaxNodes) \ {<<>>}}

(***************************************************************************)
(* External collaborators.                                                 *)
(***************************************************************************)
\* the answers of the external parser (getUASTFromBblfsh)
ParserAnswers ==
  {[err |-> "", node |-> t] : t \in Trees}
    \cup {[err |-> e, node |-> NilNode] : e \in {"ErrParseBlob", "ErrSyntax", "ErrTransport"}}

\* the object nodes directly beneath a node, as the query "//*" selects them
Selected(node) ==
  LET objs == SelectSeq(Elems(node), LAMBDA n : n.kind = "object")
      arrs == SelectSeq(Elems(node), LAMBDA n : n.kind = "array")
  IN objs \o (IF Len(arrs) = 0 THEN <<>>
              ELSE SelectSeq(Elems(arrs[1]), LAMBDA n : n.kind = "object"))

\* applyXpath: the path-query evaluator; "//[" is a malformed expression
applyXpath(node, xpath) ==
  IF xpath = "//[" THEN [err |-> "xpath", nodes |-> <<>>]
  ELSE [err |-> "", nodes |-> <<node>> \o Selected(node)]

\* computeKey: the fingerprint of (mode, language, content); the 64-bit hash
\* is taken to be free of collisions on the inputs of the model
NoKey == [mode |-> "", lang |-> "", blob |-> <<>>]
computeKey(mode, lang, blob) == [mode |-> mode, lang |-> lang, blob |-> blob]

\* sql.KeyValueCache (LRU), most recently used entry first
CacheGet(cache, key) ==
  LET hits == SelectSeq(cache, LAMBDA e : e.key = key) IN
  IF Len(hits) = 0 THEN [found |-> FALSE, node |-> NilNode, cache |-> cache]
  ELSE [found |-> TRUE, node |-> hits[1].node,
        cache |-> <<hits[1]>> \o SelectSeq(cache, LAMBDA e : e.key # key)]

CachePut(cache, size, key, node) ==
  LET all == <<[key |-> key, node |-> node]>> \o SelectSeq(cache, LAMBDA e : e.key # key)
  IN IF Len(all) > size THEN SubSeq(all, 1, size) ELSE all

CacheHas(cache, key) == \E i \in 1..Len(cache) : cache[i].key = key

(***************************************************************************)
(* State.                                                                  *)
(***************************************************************************)
VARIABLES
  uastMaxBlobSize,  \* the byte ceiling init() reads from GITBASE_MAX_UAST_BLOB_SIZE
  uastCacheSize,    \* the capacity init() reads from GITBASE_UAST_CACHE_SIZE
  uastCache,        \* the entries of the process-wide tree cache
  cacheCreated,     \* uastCache # nil
  row,              \* the row the query functions evaluate their arguments on
  last,             \* the last call of an Eval: what it read, did and returned
  uastmut,          \* the thread holding the cache-creation lock, 0 when free
  u_m,              \* the thread holding the hashing lock u.m, 0 when free
  instances,        \* how many caches NewLRUCache has been asked for
  calls,            \* how many concurrent getUAST calls have started
  lastWrite,        \* the entry of the last successful Put of a concurrent call
  thread            \* the locals of the getUAST call each thread is in

threadVars == <<uastmut, u_m, instances, calls, lastWrite, thread>>
vars == <<uastMaxBlobSize, uastCacheSize, uastCache, cacheCreated, row, last,
          uastmut, u_m, instances, calls, lastWrite, thread>>

\* the threads evaluating one uast expression at the same time
Threads == {1, 2}

\* a thread that is in no call.  cache is the instance getUASTCache returned
\* (0: none yet), miss is cacheMiss, stored tells that Put succeeded
NoThread ==
  [pc |-> "idle", blob |-> <<>>, key |-> NoKey, cache |-> 0, miss |-> FALSE,
   parsed |-> FALSE, stored |-> FALSE, node |-> NilNode, out |-> Null, err |-> ""]

NoWrite == [key |-> NoKey, node |-> NilNode]

\* no lock is held, no cache was asked for, every thread is idle
InitThreads ==
  /\ uastmut = 0
  /\ u_m = 0
  /\ instances = 0
  /\ calls = 0
  /\ lastWrite = NoWrite
  /\ thread = [t \in Threads |-> NoThread]

\* a call of which nothing has happened yet.  mode, blob, lang, xpath, propKey
\* and input are the values of the argument expressions (Unread: Eval returned
\* before evaluating lang, xpath or propKey); the prev fields tell how the
\* preceding call ended when it resolved the same fingerprint.
NoCall ==
  [op |-> "none", exit |-> "", mode |-> Unread, blob |-> Unread, lang |-> Unread,
   xpath |-> Unread, propKey |-> Unread, input |-> Unread,
   out |-> Null, err |-> "", recovered |-> FALSE, escaped |-> FALSE, warned |-> FALSE,
   keyed |-> FALSE, key |-> NoKey, hit |-> FALSE,
   hashFailed |-> FALSE, putFailed |-> FALSE, parserErr |-> "", evaluatorErr |-> "",
   parserCalls |-> 0, evaluatorCalls |-> 0, cacheGets |-> 0, cachePuts |-> 0,
   cacheSame |-> TRUE, node |-> NilNode, filtered |-> <<>>,
   prevParserErr |-> "", prevParsed |-> FALSE, prevResolved |-> FALSE,
   prevNode |-> NilNode]

\* the values of the arguments of uast_extract / uast_children / uast_imports
NoRow == [input |-> Unread, propKey |-> Unread]
QueryRows == [input : QueryInputs, propKey : KeyArgs]

\* the configured ceilings of the model: no limit, and one byte less than the
\* longest content
Ceilings == {-1, MaxBlobLen - 1}

\* init(): a non-positive cache size falls back to the default, the ceiling
\* may be negative (no limit)
Init ==
  /\ uastMaxBlobSize \in Ceilings
  /\ uastCacheSize = MaxCacheSize
  /\ uastCache = <<>>
  /\ cacheCreated = FALSE
  /\ row = NoRow
  /\ last = NoCall
  /\ InitThreads

\* a resolution that computed its fingerprint and got a tree, parsed or cached
Resolved(call) == call.op = "uast" /\ call.keyed /\ call.node # NilNode

\* Eval returns: the call is recorded, with the outcome of the preceding call
\* when that one resolved the same fingerprint
Return(call, cache, created) ==
  LET same == last.op = "uast" /\ last.keyed /\ call.op = "uast" /\ call.keyed
              /\ last.key = call.key
  IN
  /\ last' = [call EXCEPT !.cacheSame = (cache = uastCache),
                          !.prevParserErr = IF same THEN last.parserErr ELSE "",
                          !.prevParsed = same /\ Resolved(last) /\ last.parserCalls = 1,
                          !.prevResolved = same /\ Resolved(last),
                          !.prevNode = IF same THEN last.node ELSE NilNode]
  /\ uastCache' = cache
  /\ cacheCreated' = created
  /\ UNCHANGED <<uastMaxBlobSize, uastCacheSize, row>>
  /\ UNCHANGED threadVars

(***************************************************************************)
(* uastFunc.Eval and uastFunc.getUAST (uast, uast_mode).                   *)
(***************************************************************************)
\* len(bytes) == 0
emptyBlobNever(bytes) == FALSE

emptyBlob(bytes) == Len(bytes) = 0

\* uastMaxBlobSize >= 0 && len(bytes) > uastMaxBlobSize
tooBigOffByOne(size, max) == max >= 0 /\ size > max + 1

tooBig(size, max) == max >= 0 /\ size > max

\* cacheMiss := err != nil
cacheMissAlways(got) == TRUE

cacheMiss(got) == ~got.found

\* ErrParseBlob.Is(err) || derrors.ErrSyntax.Is(err)
isSoftFailureNoSyntax(err) == err = "ErrParseBlob"

isSoftFailureAny(err) == TRUE

isSoftFailure(err) == err = "ErrParseBlob" \/ err = "ErrSyntax"

\* xpath == ""
noQueryNever(xpath) == FALSE

noQuery(xpath) == xpath = ""

\* what getUAST returns as its error when applyXpath fails: nothing, it logs
xpathErrorPropagated(err) == err

xpathErrorOfGetUAST(err) == ""

\* the tail of getUAST: marshalNodes, whose failure is logged and dropped
marshalResult(call, cache) ==
  \E marshalOK \in BOOLEAN :
    IF ~marshalOK /\ Len(call.filtered) > 0
      THEN Return([call EXCEPT !.exit = "marshalErr"], cache, TRUE)
      ELSE /\ marshalOK
           /\ Return([call EXCEPT !.exit = "ok", !.out = marshalNodes(call.filtered)],
                     cache, TRUE)

\* the filter step of getUAST
filterNode(call, cache, xpath) ==
  IF noQuery(xpath)
    THEN marshalResult([call EXCEPT !.filtered = <<call.node>>], cache)
    ELSE LET r == applyXpath(call.node, xpath)
             c == [call EXCEPT !.evaluatorCalls = 1, !.evaluatorErr = r.err]
         IN IF r.err # ""
              THEN Return([c EXCEPT !.exit = "xpathErr",
                                    !.err = xpathErrorOfGetUAST(r.err)], cache, TRUE)
              ELSE marshalResult([c EXCEPT !.filtered = r.nodes], cache)

getUAST(call, blob, lang, xpath, mode) ==
  \E hashOK \in BOOLEAN :
    IF ~hashOK
      THEN Return([call EXCEPT !.exit = "hashErr", !.err = "hash", !.hashFailed = TRUE],
                  uastCache, cacheCreated)
      ELSE
        LET key == computeKey(mode, lang, blob)
            got == CacheGet(uastCache, key)
            c1 == [call EXCEPT !.keyed = TRUE, !.key = key, !.cacheGets = 1]
        IN IF ~cacheMiss(got)
             THEN filterNode([c1 EXCEPT !.hit = TRUE, !.node = got.node],
                             got.cache, xpath)
             ELSE \E answer \in ParserAnswers :
                    LET c2 == [c1 EXCEPT !.parserCalls = 1, !.parserErr = answer.err] IN
                    IF answer.err # ""
                      THEN IF isSoftFailure(answer.err)
                             THEN Return([c2 EXCEPT !.exit = "softFail"],
                                         uastCache, TRUE)
                             ELSE Return([c2 EXCEPT !.exit = "parseErr",
                                                    !.err = answer.err],
                                         uastCache, TRUE)
                      ELSE \E putOK \in BOOLEAN :
                             LET c3 == [c2 EXCEPT !.cachePuts = 1] IN
                             IF ~putOK
                               THEN Return([c3 EXCEPT !.exit = "putErr", !.err = "put",
                                                      !.putFailed = TRUE],
                                           uastCache, TRUE)
                               ELSE filterNode(
                                      [c3 EXCEPT !.node = answer.node],
                                      CachePut(uastCache, uastCacheSize, key, answer.node),
                                      xpath)

EvalUAST ==
  \E m \in ModeArgs, b \in BlobArgs :
    LET c1 == [NoCall EXCEPT !.op = "uast", !.mode = m, !.blob = b] IN
    IF m.st = "err"
      THEN Return([c1 EXCEPT !.exit = "modeErr", !.err = "eval"], uastCache, cacheCreated)
    ELSE IF ~ParseModeOK(exprToString(m))
      THEN Return([c1 EXCEPT !.exit = "badMode", !.err = "mode"], uastCache, cacheCreated)
    ELSE IF b.st = "err"
      THEN Return([c1 EXCEPT !.exit = "blobErr", !.err = "eval"], uastCache, cacheCreated)
    ELSE IF b.st = "null"
      THEN Return([c1 EXCEPT !.exit = "nullBlob"], uastCache, cacheCreated)
    ELSE IF emptyBlob(b.b)
      THEN Return([c1 EXCEPT !.exit = "emptyBlob"], uastCache, cacheCreated)
    ELSE IF tooBig(Len(b.b), uastMaxBlobSize)
      THEN Return([c1 EXCEPT !.exit = "tooBig", !.warned = TRUE],
                  uastCache, cacheCreated)
    ELSE \E l \in LangArgs :
      LET c2 == [c1 EXCEPT !.lang = l] IN
      IF l.st = "err"
        THEN Return([c2 EXCEPT !.exit = "langErr", !.err = "eval"],
                    uastCache, cacheCreated)
      ELSE \E x \in XPathArgs :
        LET c3 == [c2 EXCEPT !.xpath = x] IN
        IF x.st = "err"
          THEN Return([c3 EXCEPT !.exit = "xpathArgErr", !.err = "eval"],
                      uastCache, cacheCreated)
          ELSE getUAST(c3, b.b, ToLower(exprToString(l)), exprToString(x),
                       exprToString(m))

(***************************************************************************)
(* UASTXPath.Eval (uast_xpath).                                            *)
(***************************************************************************)
\* xpath == ""
xpathIsEmpty(xpath) == xpath = ""

\* what UASTXPath.Eval returns as its error when applyXpath fails: that error
xpathErrorOfUASTXPath(err) == err

RECURSIVE filterAll(_, _, _)
\* the loop of UASTXPath.Eval: (err, nodes, calls of the evaluator)
filterAll(ns, xpath, i) ==
  IF i > Len(ns) THEN [err |-> "", nodes |-> <<>>, calls |-> 0]
  ELSE LET partial == applyXpath(ns[i], xpath) IN
       IF partial.err # "" THEN [err |-> partial.err, nodes |-> <<>>, calls |-> 1]
       ELSE LET rest == filterAll(ns, xpath, i + 1) IN
            [err |-> rest.err,
             nodes |-> IF rest.err # "" THEN <<>> ELSE partial.nodes \o rest.nodes,
             calls |-> 1 + rest.calls]

EvalUASTXPath ==
  \E x \in XPathArgs, left \in XPathInputs :
    LET c1 == [NoCall EXCEPT !.op = "uast_xpath", !.xpath = x, !.input = left]
        ns == getNodes(left.v)
    IN
    IF x.st = "err"
      THEN Return([c1 EXCEPT !.exit = "xpathArgErr", !.err = "eval"],
                  uastCache, cacheCreated)
    ELSE IF xpathIsEmpty(exprToString(x))
      THEN Return([c1 EXCEPT !.exit = "emptyQuery"], uastCache, cacheCreated)
    ELSE IF left.st = "err"
      THEN Return([c1 EXCEPT !.exit = "inputErr", !.err = "eval"],
                  uastCache, cacheCreated)
    ELSE IF left.st = "null" \/ (ns.err = "" /\ ns.isNil)
      THEN Return([c1 EXCEPT !.exit = "nullInput"], uastCache, cacheCreated)
    ELSE IF ns.err # ""
      THEN Return([c1 EXCEPT !.exit = "unmarshalErr", !.err = ns.err],
                  uastCache, cacheCreated)
    ELSE LET r == filterAll(ns.nodes, exprToString(x), 1)
             c2 == [c1 EXCEPT !.evaluatorCalls = r.calls, !.evaluatorErr = r.err]
         IN IF r.err # ""
              THEN Return([c2 EXCEPT !.exit = "xpathErr",
                                     !.err = xpathErrorOfUASTXPath(r.err)],
                          uastCache, cacheCreated)
              ELSE \E marshalOK \in BOOLEAN :
                     IF ~marshalOK /\ Len(r.nodes) > 0
                       THEN Return([c2 EXCEPT !.exit = "marshalErr", !.err = "marshal",
                                              !.filtered = r.nodes],
                                   uastCache, cacheCreated)
                       ELSE /\ marshalOK
                            /\ Return([c2 EXCEPT !.exit = "ok", !.filtered = r.nodes,
                                                 !.out = marshalNodes(r.nodes)],
                                      uastCache, cacheCreated)

Next == EvalUAST \/ EvalUASTXPath

Spec == Init /\ [][Next]_vars

(***************************************************************************)
(* UASTExtract.Eval, UASTChildren.Eval and UASTImports.Eval, evaluated on  *)
(* the arguments of the row.                                               *)
(***************************************************************************)
\* recover() in the deferred function of Eval: the panic becomes the error
Recovered(call) ==
  [call EXCEPT !.exit = "panic", !.recovered = TRUE, !.err = "unknown error",
               !.out = Null]

\* no deferred recover(): the panic leaves Eval
Escaped(call) == [call EXCEPT !.exit = "panic", !.escaped = TRUE, !.out = Null]

EvalUASTExtract ==
  LET left == row.input
      c0 == [NoCall EXCEPT !.op = "uast_extract", !.input = left]
      ns == getNodes(left.v)
  IN /\ row # NoRow
     /\ IF left.st = "err"
          THEN Return([c0 EXCEPT !.exit = "inputErr", !.err = "eval"],
                      uastCache, cacheCreated)
        ELSE IF left.st = "null" \/ (ns.err = "" /\ ns.isNil)
          THEN Return([c0 EXCEPT !.exit = "nullInput"], uastCache, cacheCreated)
        ELSE IF ns.err # ""
          THEN Return([c0 EXCEPT !.exit = "unmarshalErr", !.err = ns.err],
                      uastCache, cacheCreated)
        ELSE LET c1 == [c0 EXCEPT !.propKey = row.propKey]
                 key == exprToString(row.propKey)
             IN IF row.propKey.st = "err"
                  THEN Return([c1 EXCEPT !.exit = "keyErr", !.err = "eval"],
                              uastCache, cacheCreated)
                ELSE IF key = ""
                  THEN Return([c1 EXCEPT !.exit = "emptyKey"], uastCache, cacheCreated)
                ELSE LET extracted == extractAll(ns.nodes, key, 1) IN
                     IF extracted.panic
                       THEN Return(Recovered(c1), uastCache, cacheCreated)
                       ELSE Return([c1 EXCEPT !.exit = "ok",
                                              !.out = Strings(extracted.vals)],
                                   uastCache, cacheCreated)

EvalUASTChildren ==
  LET child == row.input
      c0 == [NoCall EXCEPT !.op = "uast_children", !.input = child]
      ns == getNodes(child.v)
  IN /\ row # NoRow
     /\ IF child.st = "err"
          THEN Return([c0 EXCEPT !.exit = "inputErr", !.err = "eval"],
                      uastCache, cacheCreated)
        ELSE IF child.st = "null" \/ (ns.err = "" /\ ns.isNil)
          THEN Return([c0 EXCEPT !.exit = "nullInput"], uastCache, cacheCreated)
        ELSE IF ns.err # ""
          THEN Return([c0 EXCEPT !.exit = "unmarshalErr", !.err = ns.err],
                      uastCache, cacheCreated)
        ELSE LET children == flattenChildren(ns.nodes) IN
             IF children.panic
               THEN Return(Recovered(c0), uastCache, cacheCreated)
               ELSE \E marshalOK \in BOOLEAN :
                      IF ~marshalOK /\ Len(children.vals) > 0
                        THEN Return([c0 EXCEPT !.exit = "marshalErr", !.err = "marshal",
                                               !.filtered = children.vals],
                                    uastCache, cacheCreated)
                        ELSE /\ marshalOK
                             /\ Return([c0 EXCEPT !.exit = "ok",
                                                  !.filtered = children.vals,
                                                  !.out = marshalNodes(children.vals)],
                                       uastCache, cacheCreated)

EvalUASTImports ==
  LET child == row.input
      c0 == [NoCall EXCEPT !.op = "uast_imports", !.input = child]
      ns == getNodes(child.v)
  IN /\ row # NoRow
     /\ IF child.st = "err"
          THEN Return([c0 EXCEPT !.exit = "inputErr", !.err = "eval"],
                      uastCache, cacheCreated)
        ELSE IF child.st = "null" \/ (ns.err = "" /\ ns.isNil)
          THEN Return([c0 EXCEPT !.exit = "nullInput"], uastCache, cacheCreated)
        ELSE IF ns.err # ""
          THEN Return([c0 EXCEPT !.exit = "unmarshalErr", !.err = ns.err],
                      uastCache, cacheCreated)
        ELSE Return([c0 EXCEPT !.exit = "ok",
                               !.out = Lists([i \in 1..Len(ns.nodes) |->
                                                AllImportPaths(ns.nodes[i])])],
                    uastCache, cacheCreated)

\* the query functions on every row of the model
InitQuery ==
  /\ uastMaxBlobSize \in Ceilings
  /\ uastCacheSize = MaxCacheSize
  /\ uastCache = <<>>
  /\ cacheCreated = FALSE
  /\ row \in QueryRows
  /\ last = NoCall
  /\ InitThreads

NextQuery == EvalUASTExtract \/ EvalUASTChildren \/ EvalUASTImports

SpecQuery == InitQuery /\ [][NextQuery]_vars

(***************************************************************************)
(* An unexpected fault (a panic) raised beneath the Eval of a function:    *)
(* the functions whose Eval defers a recover() return it as an error,      *)
(* UASTImports.Eval defers none.                                           *)
(***************************************************************************)
\* the Evals that open with defer func() { if r := recover(); ... }()
Recovers(op) == op \in {"uast", "uast_xpath", "uast_extract", "uast_children"}

Fault(op) ==
  LET c0 == [NoCall EXCEPT !.op = op, !.input = row.input] IN
  /\ row # NoRow
  /\ IF Recovers(op)
       THEN Return(Recovered(c0), uastCache, cacheCreated)
       ELSE Return(Escaped(c0), uastCache, cacheCreated)

FaultUAST == Fault("uast")
FaultUASTXPath == Fault("uast_xpath")
FaultUASTExtract == Fault("uast_extract")
FaultUASTChildren == Fault("uast_children")
FaultUASTImports == Fault("uast_imports")

NextFault ==
  \/ NextQuery
  \/ FaultUAST
  \/ FaultUASTXPath
  \/ FaultUASTExtract
  \/ FaultUASTChildren
  \/ FaultUASTImports

SpecFault == InitQuery /\ [][NextFault]_vars

(***************************************************************************)
(* Properties of uastFunc.Eval.                                            *)
(***************************************************************************)
\* the mode argument of the last call evaluates to a mode ParseMode accepts
ModeValid == last.mode.st # "err" /\ ParseModeOK(exprToString(last.mode))

\* the last call left the external parser and the tree cache alone
Untouched ==
  /\ last.parserCalls = 0
  /\ last.cacheGets = 0
  /\ last.cachePuts = 0
  /\ last.cacheSame

\* the content of the last uast call is longer than a ceiling that is >= 0
Oversize ==
  /\ last.op = "uast"
  /\ last.blob.st = "val"
  /\ uastMaxBlobSize >= 0
  /\ Len(last.blob.b) > uastMaxBlobSize

\* C1, as claimed: whenever the ceiling is >= 0 and the content is longer than
\* it, Eval returns null with no error, never invokes the parser and neither
\* reads nor writes the cache.
C1_OversizeGuard_AsClaimed ==
  Oversize => last.out = Null /\ last.err = "" /\ Untouched

\* C1, amended: oversize content never reaches the parser or the cache and
\* never yields a tree; Eval returns null with no error (and warns) when the
\* mode argument is a valid mode, and the mode's error when it is not.
C1_OversizeGuard ==
  Oversize =>
    /\ last.out = Null
    /\ Untouched
    /\ ModeValid => (last.err = "" /\ last.warned)
    /\ ~ModeValid => last.err # ""

\* an oversize content is rejected while the cache holds a tree
C1_Witness ==
  /\ Oversize
  /\ ModeValid
  /\ last.exit = "tooBig"
  /\ last.err = ""
  /\ Len(uastCache) > 0

\* the parser answered the last resolution with no-syntax or a syntax error
SoftFailed ==
  /\ last.op = "uast"
  /\ last.parserCalls = 1
  /\ last.parserErr \in {"ErrParseBlob", "ErrSyntax"}

\* C2: a resolution the parser answers with ErrParseBlob or ErrSyntax returns
\* null with no error and leaves the cache unchanged (no entry for the
\* fingerprint), and the resolution of the same triple right after a soft
\* failure invokes the parser again.
C2_SoftFailureNotCached ==
  /\ SoftFailed =>
       /\ last.out = Null
       /\ last.err = ""
       /\ last.cacheSame
       /\ last.cachePuts = 0
       /\ ~CacheHas(uastCache, last.key)
  /\ (last.op = "uast" /\ last.keyed
        /\ last.prevParserErr \in {"ErrParseBlob", "ErrSyntax"})
       => last.parserCalls = 1

\* two successive resolutions of one triple, both answered with a syntax error
C2_Witness ==
  /\ SoftFailed
  /\ last.parserErr = "ErrSyntax"
  /\ last.prevParserErr = "ErrSyntax"
  /\ last.out = Null

C4_HardFailure ==
  /\ (last.op = "uast" /\ last.parserCalls = 1
        /\ last.parserErr \notin {"", "ErrParseBlob", "ErrSyntax"}) =>
       /\ last.err = last.parserErr
       /\ last.out = Null
       /\ last.cacheSame
       /\ ~CacheHas(uastCache, last.key)
  /\ (last.op = "uast" /\ last.putFailed) =>
       /\ last.err = "put"
       /\ last.out = Null
       /\ last.cacheSame
       /\ ~CacheHas(uastCache, last.key)
  /\ (last.op = "uast" /\ last.hashFailed) =>
       /\ last.err = "hash"
       /\ last.out = Null
       /\ Untouched

\* the parser fails with a transport error while the cache holds another tree
C4_Witness ==
  /\ last.op = "uast"
  /\ last.parserErr = "ErrTransport"
  /\ last.err = "ErrTransport"
  /\ Len(uastCache) > 0

\* the content of the last uast call is NULL or empty
InputAbsent ==
  /\ last.op = "uast"
  /\ \/ last.blob.st = "null"
     \/ last.blob.st = "val" /\ Len(last.blob.b) = 0

\* C5, as claimed: null or empty content resolves to null and never to an
\* error, whatever the mode, language and query are, and the parser and the
\* cache are not touched.
C5_InputAbsent_AsClaimed ==
  InputAbsent => last.out = Null /\ last.err = "" /\ Untouched

\* C5, amended: null or empty content never touches the parser or the cache
\* and never evaluates the language or the query; it resolves to null with no
\* error when the mode argument is a valid mode, and to the mode's error when
\* it is not.
C5_InputAbsent ==
  InputAbsent =>
    /\ last.out = Null
    /\ Untouched
    /\ last.lang = Unread
    /\ last.xpath = Unread
    /\ ModeValid => last.err = ""
    /\ ~ModeValid => last.err # ""

\* empty content with a valid mode while the cache holds a tree
C5_Witness ==
  /\ InputAbsent
  /\ ModeValid
  /\ last.blob = BytesArg(<<>>)
  /\ last.exit = "emptyBlob"
  /\ Len(uastCache) > 0

(***************************************************************************)
(* Properties of the path-query filter (uast's query, uast_xpath).         *)
(***************************************************************************)
\* the last uast call got its tree and filtered it with an empty query
EmptyQueryOfUAST ==
  /\ last.op = "uast"
  /\ last.node # NilNode
  /\ last.xpath.st \in {"null", "val"}
  /\ exprToString(last.xpath) = ""

\* the last uast_xpath call has an empty query and a sequence of nodes
EmptyQueryOfUASTXPath ==
  /\ last.op = "uast_xpath"
  /\ last.xpath.st \in {"null", "val"}
  /\ exprToString(last.xpath) = ""
  /\ last.input.st = "val"
  /\ last.input.v.kind = "blob"

\* uast with an empty query: the root alone, the evaluator not called
EmptyQueryIdentityOfUAST ==
  EmptyQueryOfUAST =>
    /\ last.evaluatorCalls = 0
    /\ last.filtered = <<last.node>>
    /\ last.exit = "ok" => last.out = Blob(<<last.node>>)

\* C6, as claimed: uast's query and uast_xpath, given an empty query, return
\* the input nodes unchanged without calling the evaluator.
C6_EmptyQueryIdentity_AsClaimed ==
  /\ EmptyQueryIdentityOfUAST
  /\ EmptyQueryOfUASTXPath =>
       /\ last.evaluatorCalls = 0
       /\ last.out = last.input.v

\* C6, amended: uast with an empty query returns the root wrapped as a
\* one-element sequence without calling the evaluator; uast_xpath with an
\* empty query returns null, with no error and without calling the evaluator.
C6_EmptyQueryIdentity ==
  /\ EmptyQueryIdentityOfUAST
  /\ EmptyQueryOfUASTXPath =>
       /\ last.evaluatorCalls = 0
       /\ last.out = Null
       /\ last.err = ""

\* uast returned its freshly parsed root under an empty query
C6_Witness ==
  /\ EmptyQueryOfUAST
  /\ last.parserCalls = 1
  /\ last.exit = "ok"
  /\ last.out = Blob(<<last.node>>)

\* uast_xpath returned null for an empty query over a sequence of nodes
C6_WitnessXPath ==
  /\ EmptyQueryOfUASTXPath
  /\ last.out = Null

\* the evaluator failed in the last call of uast
QueryFailedInUAST == last.op = "uast" /\ last.evaluatorErr # ""

\* the evaluator failed in the last call of uast_xpath
QueryFailedInUASTXPath == last.op = "uast_xpath" /\ last.evaluatorErr # ""

\* uast with a failing query: null, no error, the parsed tree stays cached
QueryFailureOfUAST ==
  QueryFailedInUAST =>
    /\ last.out = Null
    /\ last.err = ""
    /\ last.parserCalls = 1 =>
         (Len(uastCache) > 0 /\ uastCache[1] = [key |-> last.key, node |-> last.node])

\* C7, as claimed: when the evaluator fails, uast and uast_xpath resolve to
\* null and return no error; in uast the tree just parsed stays cached.
C7_QueryFailure_AsClaimed ==
  /\ QueryFailureOfUAST
  /\ QueryFailedInUASTXPath => (last.out = Null /\ last.err = "")

\* C7, amended: when the evaluator fails, uast resolves to null with no error
\* and keeps the tree it just parsed in the cache; uast_xpath returns the
\* evaluator's error (with a null result).
C7_QueryFailure ==
  /\ QueryFailureOfUAST
  /\ QueryFailedInUASTXPath => (last.out = Null /\ last.err = last.evaluatorErr)

\* uast parsed a tree, stored it, and the query then failed
C7_Witness ==
  /\ QueryFailedInUAST
  /\ last.parserCalls = 1
  /\ last.out = Null
  /\ CacheHas(uastCache, last.key)

(***************************************************************************)
(* Properties of uast_extract, uast_children and the fault boundary.       *)
(***************************************************************************)
\* the last uast_extract call got a sequence of nodes and a non-empty key
\* that no node of the sequence carries
AbsentKey ==
  /\ last.op = "uast_extract"
  /\ last.input.st = "val"
  /\ last.input.v.kind = "blob"
  /\ last.propKey.st = "val"
  /\ last.propKey.s # ""
  /\ \A i \in 1..Len(last.input.v.nodes) :
       LET n == last.input.v.nodes[i] IN
       n.kind # "object" \/ \A j \in 1..Len(n.kids) : n.kids[j].key # last.propKey.s

\* the last uast_extract call got a NULL input, or nodes and an empty key
AbsentInputOrKey ==
  /\ last.op = "uast_extract"
  /\ \/ last.input.st = "null"
     \/ /\ last.input.st = "val"
        /\ last.input.v.kind = "blob"
        /\ last.propKey.st \in {"null", "val"}
        /\ last.propKey.s = ""

\* C8, as claimed: uast_extract with a non-empty key that no input node
\* carries returns null, as for an empty key or a null input, and no error.
C8_AbsentKeyNull_AsClaimed ==
  /\ AbsentKey => (last.out = Null /\ last.err = "")
  /\ AbsentInputOrKey => (last.out = Null /\ last.err = "")

\* C8, amended: uast_extract with a non-empty key that no input node carries
\* returns an empty sequence of strings, which is not null, and no error; an
\* empty key or a null input returns null and no error.
C8_AbsentKeyEmpty ==
  /\ AbsentKey => (last.out = Strings(<<>>) /\ last.out # Null /\ last.err = "")
  /\ AbsentInputOrKey => (last.out = Null /\ last.err = "")

\* two object nodes, neither carrying the key "missing"
C8_Witness ==
  /\ AbsentKey
  /\ last.propKey.s = "missing"
  /\ Len(last.input.v.nodes) = 2
  /\ \A i \in 1..2 : last.input.v.nodes[i].kind = "object"
  /\ last.out = Strings(<<>>)

\* type, token, roles, position
CommonKeys == {"@type", "@token", "@role", "@pos"}

RECURSIVE Concat(_)
Concat(seqs) == IF Len(seqs) = 0 THEN <<>> ELSE Head(seqs) \o Concat(Tail(seqs))

\* what one child value contributes: itself when an object, its object
\* elements when an array, nothing otherwise
Contribution(child) ==
  IF child.kind = "object" THEN <<child>>
  ELSE IF child.kind = "array"
    THEN SelectSeq([i \in 1..Len(child.kids) |-> child.kids[i].node],
                   LAMBDA e : e.kind = "object")
  ELSE <<>>

\* the children the claim describes, per input node, per key, per element
ExpectedChildren(ns) ==
  Concat([i \in 1..Len(ns) |->
            IF ns[i].kind # "object" THEN <<>>
            ELSE Concat([j \in 1..Len(ns[i].kids) |->
                           IF ns[i].kids[j].key \in CommonKeys THEN <<>>
                           ELSE Contribution(ns[i].kids[j].node)])])

\* C9, as claimed: for every sequence of nodes flattenChildren returns exactly
\* the object children and the object elements of array children under the
\* non-common keys, per input node, per key, per element; common keys, scalar
\* (also null) children, non-object elements and non-object nodes contribute
\* nothing.
C9_ChildrenFlattening ==
  (last.op = "uast_children" /\ last.input.st = "val" /\ last.input.v.kind = "blob") =>
    /\ last.exit \in {"ok", "marshalErr"}
    /\ last.filtered = ExpectedChildren(last.input.v.nodes)

\* C10, as claimed: a fault raised beneath the Eval of any of the functions is
\* caught and returned as an error with a null result; none leaves Eval.
C10_FaultBoundary ==
  last.exit = "panic" =>
    /\ last.recovered
    /\ ~last.escaped
    /\ last.err # ""
    /\ last.out = Null

\* the strings the claim describes for one node and a non-common key: the
\* string form of a scalar value, the string forms of the scalar elements of
\* an array value in array order, nothing otherwise
ExpectedProps(n, key) ==
  IF n.kind # "object" \/ ~HasKey(n, key) THEN <<>>
  ELSE LET v == Lookup(n, key) IN
       IF v.kind \in KindsValues THEN <<valueToString(v)>>
       ELSE IF v.kind = "array"
         THEN LET scalars == SelectSeq(Elems(v), LAMBDA e : e.kind \in KindsValues)
              IN [i \in 1..Len(scalars) |-> valueToString(scalars[i])]
       ELSE <<>>

\* the last uast_extract call got a sequence of nodes and a non-common key
AnyPropCall ==
  /\ last.op = "uast_extract"
  /\ last.input.st = "val"
  /\ last.input.v.kind = "blob"
  /\ last.propKey.st = "val"
  /\ last.propKey.s # ""
  /\ last.propKey.s \notin CommonKeys

\* C11, as claimed: for a non-common key, a scalar value yields its string
\* form, an array value yields the string forms of its scalar elements in
\* array order with the non-scalar elements (objects, arrays, null) skipped, a
\* missing key, a null value, a nested object or a non-object node yields
\* nothing, and no case returns an error.
C11_AnyPropExtraction ==
  AnyPropCall =>
    /\ last.err = ""
    /\ last.out = Strings(Concat([i \in 1..Len(last.input.v.nodes) |->
                                    ExpectedProps(last.input.v.nodes[i], last.propKey.s)]))

\* an array value holds a null element
HasNilElement(n, key) ==
  /\ n.kind = "object"
  /\ HasKey(n, key)
  /\ Lookup(n, key).kind = "array"
  /\ \E i \in 1..Len(Lookup(n, key).kids) : Lookup(n, key).kids[i].node.kind = "nil"

\* the extraction is as C11 describes on every input whose array values hold
\* no null element
AnyPropExtractionWithoutNilElements ==
  (AnyPropCall /\ \A i \in 1..Len(last.input.v.nodes) :
                    ~HasNilElement(last.input.v.nodes[i], last.propKey.s))
    => /\ last.err = ""
       /\ last.out = Strings(Concat([i \in 1..Len(last.input.v.nodes) |->
                                       ExpectedProps(last.input.v.nodes[i], last.propKey.s)]))

\* a mixed array value: the scalar elements in order, the object skipped
AnyPropMixedArray ==
  /\ AnyPropCall
  /\ last.propKey.s = "items"
  /\ last.input.v.nodes = <<NodeLit>>
  /\ last.out = Strings(<<"12", "a">>)

(***************************************************************************)
(* Concurrent calls of uastFunc.getUAST on one uast expression: each       *)
(* thread goes through computeKey (under u.m), getUASTCache (under         *)
(* uastmut), Get, the parser, Put and the filter step, one step at a time. *)
(***************************************************************************)
\* how many getUAST calls the threads start in all
MaxCalls == 3

\* the contents the threads resolve, in mode "semantic" and language "go"
ThreadBlobs == {<<1>>, <<1, 1>>}

\* a deferred Unlock() that does not happen
unlockedNever(t, holder) == holder

\* defer Unlock(): the lock its holder took is free when the function returns
unlocked(t, holder) == IF holder = t THEN 0 ELSE holder

\* a test of uastCache that always finds no cache
cacheIsNilAlways(created) == TRUE

\* uastCache == nil
cacheIsNil(created) == ~created

\* the steps after which a thread has left both critical sections
Unlocked == {"get", "parse", "put", "filter"}

\* a thread enters getUAST
Call(t) ==
  /\ thread[t].pc \in {"idle", "done"}
  /\ calls < MaxCalls
  /\ calls' = calls + 1
  /\ \E b \in ThreadBlobs :
       thread' = [thread EXCEPT ![t] = [NoThread EXCEPT !.pc = "computeKey", !.blob = b]]
  /\ UNCHANGED <<uastMaxBlobSize, uastCacheSize, uastCache, cacheCreated, row, last,
                 uastmut, u_m, instances, lastWrite>>

\* u.m.Lock()
LockHash(t) ==
  /\ thread[t].pc = "computeKey"
  /\ u_m = 0
  /\ u_m' = t
  /\ thread' = [thread EXCEPT ![t].pc = "hashing"]
  /\ UNCHANGED <<uastMaxBlobSize, uastCacheSize, uastCache, cacheCreated, row, last,
                 uastmut, instances, calls, lastWrite>>

\* computeKey(u.h, mode, lang, blob), the deferred u.m.Unlock(), and the
\* return of getUAST when hashing failed
Hash(t) ==
  /\ thread[t].pc = "hashing"
  /\ u_m' = unlocked(t, u_m)
  /\ \E hashOK \in BOOLEAN :
       thread' = [thread EXCEPT ![t] =
                    IF hashOK
                      THEN [@ EXCEPT !.pc = "getUASTCache",
                                     !.key = computeKey("semantic", "go", thread[t].blob)]
                      ELSE [@ EXCEPT !.pc = "done", !.err = "hash"]]
  /\ UNCHANGED <<uastMaxBlobSize, uastCacheSize, uastCache, cacheCreated, row, last,
                 uastmut, instances, calls, lastWrite>>

\* uastmut.Lock()
LockCache(t) ==
  /\ thread[t].pc = "getUASTCache"
  /\ uastmut = 0
  /\ uastmut' = t
  /\ thread' = [thread EXCEPT ![t].pc = "locked"]
  /\ UNCHANGED <<uastMaxBlobSize, uastCacheSize, uastCache, cacheCreated, row, last,
                 u_m, instances, calls, lastWrite>>

\* if uastCache == nil { uastCache, _ = ctx.Memory.NewLRUCache(...) }
CheckCache(t) ==
  /\ thread[t].pc = "locked"
  /\ IF cacheIsNil(cacheCreated)
       THEN /\ uastCache' = <<>>
            /\ cacheCreated' = TRUE
            /\ instances' = instances + 1
       ELSE UNCHANGED <<uastCache, cacheCreated, instances>>
  /\ thread' = [thread EXCEPT ![t].pc = "created"]
  /\ UNCHANGED <<uastMaxBlobSize, uastCacheSize, row, last, uastmut, u_m, calls,
                 lastWrite>>

\* return uastCache, and the deferred uastmut.Unlock()
ReturnCache(t) ==
  /\ thread[t].pc = "created"
  /\ uastmut' = unlocked(t, uastmut)
  /\ thread' = [thread EXCEPT ![t].pc = "get", ![t].cache = instances]
  /\ UNCHANGED <<uastMaxBlobSize, uastCacheSize, uastCache, cacheCreated, row, last,
                 u_m, instances, calls, lastWrite>>

\* value, err := uastCache.Get(key)
Get(t) ==
  LET got == CacheGet(uastCache, thread[t].key) IN
  /\ thread[t].pc = "get"
  /\ uastCache' = got.cache
  /\ thread' = [thread EXCEPT ![t] =
                  IF cacheMiss(got)
                    THEN [@ EXCEPT !.pc = "parse", !.miss = TRUE]
                    ELSE [@ EXCEPT !.pc = "filter", !.node = got.node]]
  /\ UNCHANGED <<uastMaxBlobSize, uastCacheSize, cacheCreated, row, last,
                 uastmut, u_m, instances, calls, lastWrite>>

\* node, err = getUASTFromBblfsh(...), and the returns on its failures
Parse(t) ==
  /\ thread[t].pc = "parse"
  /\ \E answer \in ParserAnswers :
       thread' = [thread EXCEPT ![t] =
                    IF answer.err = ""
                      THEN [@ EXCEPT !.pc = "put", !.parsed = TRUE, !.node = answer.node]
                    ELSE IF isSoftFailure(answer.err)
                      THEN [@ EXCEPT !.pc = "done"]
                      ELSE [@ EXCEPT !.pc = "done", !.err = answer.err]]
  /\ UNCHANGED <<uastMaxBlobSize, uastCacheSize, uastCache, cacheCreated, row, last,
                 uastmut, u_m, instances, calls, lastWrite>>

\* uastCache.Put(key, node), and the return on its failure
Put(t) ==
  /\ thread[t].pc = "put"
  /\ \E putOK \in BOOLEAN :
       IF putOK
         THEN /\ uastCache' = CachePut(uastCache, uastCacheSize, thread[t].key,
                                       thread[t].node)
              /\ lastWrite' = [key |-> thread[t].key, node |-> thread[t].node]
              /\ thread' = [thread EXCEPT ![t].pc = "filter", ![t].stored = TRUE]
         ELSE /\ thread' = [thread EXCEPT ![t].pc = "done", ![t].err = "put"]
              /\ UNCHANGED <<uastCache, lastWrite>>
  /\ UNCHANGED <<uastMaxBlobSize, uastCacheSize, cacheCreated, row, last,
                 uastmut, u_m, instances, calls>>

\* nodeArray = append(nodeArray, node), marshalNodes, return
Filter(t) ==
  /\ thread[t].pc = "filter"
  /\ \E marshalOK \in BOOLEAN :
       thread' = [thread EXCEPT ![t] =
                    [@ EXCEPT !.pc = "done",
                              !.out = IF marshalOK THEN marshalNodes(<<thread[t].node>>)
                                                   ELSE Null]]
  /\ UNCHANGED <<uastMaxBlobSize, uastCacheSize, uastCache, cacheCreated, row, last,
                 uastmut, u_m, instances, calls, lastWrite>>

NextThreads ==
  \E t \in Threads :
    \/ Call(t)
    \/ LockHash(t)
    \/ Hash(t)
    \/ LockCache(t)
    \/ CheckCache(t)
    \/ ReturnCache(t)
    \/ Get(t)
    \/ Parse(t)
    \/ Put(t)
    \/ Filter(t)

SpecThreads == Init /\ [][NextThreads]_vars

(***************************************************************************)
(* Properties of concurrent resolutions.                                   *)
(***************************************************************************)
\* a thread that is reading or writing the cache, calling the parser or
\* filtering holds neither uastmut nor u.m
NoLockAcrossParse ==
  \A t \in Threads : thread[t].pc \in Unlocked => (uastmut # t /\ u_m # t)

\* both threads have returned from a resolution of the same fingerprint in
\* which the parser answered with a tree
BothParsed ==
  /\ \A t \in Threads : thread[t].pc = "done" /\ thread[t].parsed
  /\ \A t, u \in Threads : thread[t].key = thread[u].key

\* the cache holds an entry for the fingerprint, equal to the last write
HoldsLastWrite(key) ==
  /\ CacheHas(uastCache, key)
  /\ lastWrite.key = key
  /\ CacheGet(uastCache, key).node = lastWrite.node

\* C12, as claimed: no lock is held while the parser is called or the cache
\* is read or written, and when both parses of two resolutions of the same
\* fingerprint succeed both callers return a tree and the cache holds an entry
\* for the key equal to the last write.
C12_ConcurrentMisses_AsClaimed ==
  /\ NoLockAcrossParse
  /\ BothParsed =>
       /\ \A t \in Threads : thread[t].err = "" /\ thread[t].node # NilNode
       /\ HoldsLastWrite(thread[1].key)

\* C12, amended: no lock is held while the parser is called or the cache is
\* read or written; when both parses succeed and both cache writes succeed,
\* both callers return a tree without error and the cache holds an entry for
\* the key equal to the last write; a caller whose cache write fails returns
\* that error.
C12_ConcurrentMisses ==
  /\ NoLockAcrossParse
  /\ (BothParsed /\ \A t \in Threads : thread[t].stored) =>
       /\ \A t \in Threads : thread[t].err = "" /\ thread[t].node # NilNode
       /\ HoldsLastWrite(thread[1].key)
  /\ \A t \in Threads :
       (thread[t].pc = "done" /\ thread[t].parsed /\ ~thread[t].stored)
         => thread[t].err = "put"

\* two calls in all, of the same fingerprint: both missed, both called the
\* parser, which answered with different trees, and both wrote the cache
C12_Witness ==
  /\ calls = 2
  /\ BothParsed
  /\ \A t \in Threads : thread[t].miss /\ thread[t].stored /\ thread[t].err = ""
  /\ thread[1].node # thread[2].node
  /\ HoldsLastWrite(thread[1].key)

\* both threads are in the parser at the same time for the same fingerprint
BothInParser ==
  /\ \A t \in Threads : thread[t].pc = "parse"
  /\ thread[1].key = thread[2].key

\* a thread that getUASTCache has answered, or is about to, in its call
PastCreation == {"created", "get", "parse", "put", "filter"}

\* exactly one cache exists once a call of getUASTCache has got past the
\* creation step, and it is the one every call was given
OneCache ==
  /\ instances <= 1
  /\ cacheCreated <=> instances = 1
  /\ \A t \in Threads :
       /\ thread[t].pc \in PastCreation => (cacheCreated /\ instances = 1)
       /\ thread[t].cache # 0 => thread[t].cache = 1

\* a step leaves an existing cache in place: it is not created again and
\* it is not disposed
CacheKept == cacheCreated => (cacheCreated' /\ instances' = instances)

\* C13: under every interleaving of concurrent getUASTCache calls the cache
\* is created exactly once, by the first call, every call returns that one
\* instance, and the instance is never replaced or disposed afterwards.
C13_SingleCreation == []OneCache /\ [][CacheKept]_vars

\* both threads were at getUASTCache at the same time, one waiting for the
\* lock the other held while it created the cache, and both were given the
\* one instance
C13_Witness ==
  /\ calls = 2
  /\ instances = 1
  /\ \A t \in Threads : thread[t].pc = "get" /\ thread[t].cache = 1

\* one thread holds uastmut and has created the cache while the other waits
\* for the lock
WaitingForCreation ==
  \E t, u \in Threads :
    /\ thread[t].pc = "created" /\ uastmut = t
    /\ thread[u].pc = "getUASTCache"

====
